---- MODULE Spec2Model ----
(***************************************************************************)
(* The Cloud Run AI generator of src/index.js: an Express server with a    *)
(* static page (GET /) and a proxy to the Gemini API (POST /api/generate), *)
(* and the submit handler of the page it serves.                           *)
(*                                                                         *)
(* Black boxes, not modelled: the parsing of the request body by           *)
(* express.json() (a request reaches a route handler with req.body an      *)
(* object), and the network between the page and the server.               *)
(***************************************************************************)
EXTENDS Naturals, Sequences, FiniteSets, TLC

\* ---------------------------------------------------------------- bounds

\* The number of HTTP requests the server receives in one run.
MaxRequests == 3

\* ------------------------------------------------------------- JS values

\* A JavaScript value: its type and, as a string, what it holds.
JSVal(type, v) == [t |-> type, v |-> v]
Undefined == JSVal("undefined", "")
Null == JSVal("null", "")
Str(s) == JSVal("string", s)
Num(s) == JSVal("number", s)
\* new GoogleGenAI({ apiKey }): an object holding the key.
GoogleGenAI(apiKey) == JSVal("object", apiKey.v)

\* JavaScript's ToBoolean, as `if (x)`, `!x` and `a || b` apply it.
Truthy(x) ==
    CASE x.t = "undefined" -> FALSE
      [] x.t = "null" -> FALSE
      [] x.t = "string" -> x.v # ""
      [] x.t = "number" -> x.v \notin {"0", "NaN"}
      [] x.t = "boolean" -> x.v = "true"
      [] OTHER -> TRUE

\* An object as the set of its <<key, value>> pairs.
\* JSON.stringify leaves out the keys whose value is undefined.
JsonStringify(obj) == {kv \in obj : kv[2].t # "undefined"}

\* obj[key] of a parsed JSON object: undefined when the key is absent.
Get(obj, key) ==
    IF \E kv \in obj : kv[1] = key
    THEN (CHOOSE kv \in obj : kv[1] = key)[2]
    ELSE Undefined

\* ----------------------------------------------------------- environment

\* process.env.GEMINI_API_KEY: unset, set to the empty string, or set.
ApiKeys == {Undefined, Str(""), Str("key-123")}

\* The values req.body.prompt takes; undefined is a body without the field.
Prompts == {Undefined, Null, Str(""), Num("0"), Str("haiku"), Num("7")}
Bodies == [prompt : Prompts]

\* ------------------------------------------------------ the upstream API

\* A content part, a candidate and a response of generateContent. A field the
\* response lacks is has... = FALSE (candidates, content, parts) or a text of
\* undefined.
Part(text) == [text |-> text]
Candidate(hasContent, hasParts, parts) ==
    [hasContent |-> hasContent, hasParts |-> hasParts, parts |-> parts]
Response(hasCandidates, candidates) ==
    [hasCandidates |-> hasCandidates, candidates |-> candidates]

NoCandidates == Response(FALSE, << >>)
EmptyCandidates == Response(TRUE, << >>)
NoContent == Response(TRUE, <<Candidate(FALSE, FALSE, << >>)>>)
NoParts == Response(TRUE, <<Candidate(TRUE, FALSE, << >>)>>)
EmptyParts == Response(TRUE, <<Candidate(TRUE, TRUE, << >>)>>)
NoText == Response(TRUE, <<Candidate(TRUE, TRUE, <<Part(Undefined)>>)>>)
EmptyText == Response(TRUE, <<Candidate(TRUE, TRUE, <<Part(Str(""))>>)>>)
OneText == Response(TRUE, <<Candidate(TRUE, TRUE, <<Part(Str("Cold start"))>>)>>)
ManyTexts ==
    Response(TRUE, <<Candidate(TRUE, TRUE, <<Part(Str("first")), Part(Str("second"))>>),
                     Candidate(TRUE, TRUE, <<Part(Str("other"))>>)>>)

Responses ==
    {NoCandidates, EmptyCandidates, NoContent, NoParts, EmptyParts, NoText,
     EmptyText, OneText, ManyTexts}

\* What a rejected generateContent carries: the error's detail.
Errors == {"fetch failed", "API key not valid: key-123"}
TypeError == "TypeError: Cannot read properties of undefined"

\* How the upstream call of a request ended, if it did.
Outcome(kind, response, error) == [kind |-> kind, response |-> response, error |-> error]
Pending == Outcome("none", NoCandidates, "")
Resolved(response) == Outcome("resolve", response, "")
Rejected(error) == Outcome("reject", NoCandidates, error)

\* ---------------------------------------------------------------- server

Unavailable == "AI service is unavailable. The server is missing required configuration (API Key)."
PromptRequired == "Prompt is required in the request body."
GenericError == "Failed to generate content from the AI model due to an internal API error."
PageTitle == "Serverless AI Content Generator"
Model == "gemini-2.5-flash"
MaxOutputTokens == 256

Requests == 1..MaxRequests

\* The arguments of ai.models.generateContent.
NoCall == [model |-> "", text |-> Undefined, maxOutputTokens |-> 0]
Call(prompt) == [model |-> Model, text |-> prompt, maxOutputTokens |-> MaxOutputTokens]

\* A request: where its handler is, what it was sent, its upstream call and
\* its response (status 0: none sent yet).
NoRequest ==
    [pc |-> "idle", method |-> "", prompt |-> Undefined, calls |-> 0, call |-> NoCall,
     upstream |-> Pending, status |-> 0, type |-> "", json |-> {}, html |-> "",
     logged |-> << >>]

VARIABLES
    GEMINI_API_KEY,   \* the credential of the environment
    started,          \* the module's top level has run and the server listens
    ai,               \* the client handle
    reqs,             \* the requests, in the order received
    page              \* the served page, in a browser

vars == <<GEMINI_API_KEY, started, ai, reqs, page>>

\* Faulty variant: the client is constructed whatever the key.
InitClient_Always(key) == GoogleGenAI(key)
\* Lines 17-24: the client is constructed only if the key is truthy.
InitClient(key) == IF Truthy(key) THEN GoogleGenAI(key) ELSE Undefined

\* response.candidates[0].content.parts[0].text: the value read, or the
\* TypeError of reading a property of undefined.
Threw(error) == [threw |-> TRUE, value |-> Undefined, error |-> error]
Returned(value) == [threw |-> FALSE, value |-> value, error |-> ""]
\* Faulty variant: the last part of the first candidate, not the first.
ExtractText_Last(response) ==
    IF ~response.hasCandidates \/ response.candidates = << >> THEN Threw(TypeError)
    ELSE LET c == response.candidates[1] IN
         IF ~c.hasContent \/ ~c.hasParts \/ c.parts = << >> THEN Threw(TypeError)
         ELSE Returned(c.parts[Len(c.parts)].text)
ExtractText(response) ==
    IF ~response.hasCandidates THEN Threw(TypeError)
    ELSE IF Len(response.candidates) < 1 THEN Threw(TypeError)
    ELSE LET candidate == response.candidates[1] IN
         IF ~candidate.hasContent THEN Threw(TypeError)
         ELSE IF ~candidate.hasParts THEN Threw(TypeError)
         ELSE IF Len(candidate.parts) < 1 THEN Threw(TypeError)
         ELSE Returned(candidate.parts[1].text)

\* res.status(status).json(obj), which ends the request.
Respond(rq, status, obj) ==
    [rq EXCEPT !.pc = "done", !.status = status, !.type = "application/json",
               !.json = JsonStringify(obj)]

\* Lines 29-118: the fixed page.
GetRootHandler ==
    [NoRequest EXCEPT !.pc = "done", !.method = "GET", !.status = 200,
                      !.type = "text/html", !.html = PageTitle]

\* Lines 121-141: the handler up to its await, for a request with this body.
Received(reqBody) == [NoRequest EXCEPT !.method = "POST", !.prompt = reqBody.prompt]
CallUpstream(rq, prompt) ==
    [rq EXCEPT !.pc = "awaiting", !.calls = @ + 1, !.call = Call(prompt)]
\* Faulty variant: the prompt is checked before the client.
GenerateHandler_PromptFirst(aiHandle, reqBody) ==
    LET rq == Received(reqBody)
        prompt == reqBody.prompt
    IN  IF ~Truthy(prompt) THEN Respond(rq, 400, {<<"error", Str(PromptRequired)>>})
        ELSE IF ~Truthy(aiHandle)
        THEN Respond([rq EXCEPT !.logged = <<"Critical Error">>], 503,
                     {<<"error", Str(Unavailable)>>})
        ELSE CallUpstream(rq, prompt)
\* Faulty variant: only a missing prompt is refused (prompt === undefined).
GenerateHandler_MissingOnly(aiHandle, reqBody) ==
    LET rq == Received(reqBody)
        prompt == reqBody.prompt
    IN  IF ~Truthy(aiHandle)
        THEN Respond([rq EXCEPT !.logged = <<"Critical Error">>], 503,
                     {<<"error", Str(Unavailable)>>})
        ELSE IF prompt = Undefined THEN Respond(rq, 400, {<<"error", Str(PromptRequired)>>})
        ELSE CallUpstream(rq, prompt)
\* Faulty variant: once a request has failed with 500, later ones are refused
\* with 503 (state carried from one request to the next).
GenerateHandler_Breaker(aiHandle, reqBody) ==
    LET rq == Received(reqBody)
        prompt == reqBody.prompt
    IN  IF ~Truthy(aiHandle) \/ (\E q \in Requests : reqs[q].status = 500)
        THEN Respond([rq EXCEPT !.logged = <<"Critical Error">>], 503,
                     {<<"error", Str(Unavailable)>>})
        ELSE IF ~Truthy(prompt) THEN Respond(rq, 400, {<<"error", Str(PromptRequired)>>})
        ELSE CallUpstream(rq, prompt)
\* The handler as written: the client check, then the prompt check, then the call.
GenerateHandler(aiHandle, reqBody) ==
    LET rq == Received(reqBody)
        prompt == reqBody.prompt
    IN  IF ~Truthy(aiHandle)
        THEN Respond([rq EXCEPT !.logged = <<"Critical Error">>], 503,
                     {<<"error", Str(Unavailable)>>})
        ELSE IF ~Truthy(prompt) THEN Respond(rq, 400, {<<"error", Str(PromptRequired)>>})
        ELSE CallUpstream(rq, prompt)

\* Faulty variant: the error's detail is sent to the client.
Catch_Leak(rq, error) ==
    Respond([rq EXCEPT !.logged = <<"Gemini API call failed:", error>>], 500,
            {<<"error", Str(error)>>})
\* Faulty variant: the call is made once more after a first failure.
Catch_Retry(rq, error) ==
    IF rq.calls < 2
    THEN [rq EXCEPT !.calls = @ + 1, !.upstream = Pending]
    ELSE Respond([rq EXCEPT !.logged = <<"Gemini API call failed:", error>>], 500,
                 {<<"error", Str(GenericError)>>})
\* Lines 148-151: the catch block.
Catch(rq, error) ==
    Respond([rq EXCEPT !.logged = <<"Gemini API call failed:", error>>], 500,
            {<<"error", Str(GenericError)>>})

\* Lines 143-146 (and 148-151 when reading the text throws): the handler
\* after its await, the call having resolved with this response. res.json
\* without res.status sends status 200.
Resume(rq, response) ==
    LET generatedText == ExtractText(response) IN
    IF generatedText.threw THEN Catch(rq, generatedText.error)
    ELSE Respond(rq, 200, {<<"text", generatedText.value>>})

\* --------------------------------------------------------------- actions

\* Faulty variant: a handler that blocks the process while it waits, so that
\* no request is taken while another awaits the upstream API.
Ready_Serial(r) ==
    /\ started
    /\ r \in Requests
    /\ reqs[r].pc = "idle"
    /\ \A q \in Requests : q < r => reqs[q].pc # "idle"
    /\ \A q \in Requests : reqs[q].pc # "awaiting"
\* The server takes the next request when it listens: requests fill reqs in
\* the order received, and a handler that awaits has returned to the event
\* loop (line 134), so no request waits for another's upstream call.
Ready(r) ==
    /\ started
    /\ r \in Requests
    /\ reqs[r].pc = "idle"
    /\ \A q \in Requests : q < r => reqs[q].pc # "idle"

\* Lines 14-24 and 155: the module's top level.
Startup ==
    /\ ~started
    /\ ai' = InitClient(GEMINI_API_KEY)
    /\ started' = TRUE
    /\ UNCHANGED <<GEMINI_API_KEY, reqs, page>>

\* GET /
GetRoot(r) ==
    /\ Ready(r)
    /\ reqs' = [reqs EXCEPT ![r] = GetRootHandler]
    /\ UNCHANGED <<GEMINI_API_KEY, started, ai, page>>

\* POST /api/generate, to its response or to its await.
Generate(r, reqBody) ==
    /\ Ready(r)
    /\ reqs' = [reqs EXCEPT ![r] = GenerateHandler(ai, reqBody)]
    /\ UNCHANGED <<GEMINI_API_KEY, started, ai, page>>

\* The upstream call of r resolves.
UpstreamResolve(r, response) ==
    /\ reqs[r].pc = "awaiting"
    /\ reqs' = [reqs EXCEPT ![r] = Resume([@ EXCEPT !.upstream = Resolved(response)], response)]
    /\ UNCHANGED <<GEMINI_API_KEY, started, ai, page>>

\* The upstream call of r rejects.
UpstreamReject(r, error) ==
    /\ reqs[r].pc = "awaiting"
    /\ reqs' = [reqs EXCEPT ![r] = Catch([@ EXCEPT !.upstream = Rejected(error)], error)]
    /\ UNCHANGED <<GEMINI_API_KEY, started, ai, page>>

\* ------------------------------------------------------------------ page

Placeholder == "The AI's response will appear here."
ErrorPrefix == "Error: "
ErrorSuffix == ". Please ensure the GEMINI_API_KEY is correctly configured on the Cloud Run service."
FailedToFetch == "Failed to fetch"
SyntaxError == "Unexpected token < in JSON"
NullTypeError == "Cannot read properties of null"

\* What fetch resolves with: the status and the body, which is a JSON object,
\* the JSON null, or no JSON at all.
HttpResponse(status, kind, obj) == [status |-> status, kind |-> kind, obj |-> obj]
NoResponse == HttpResponse(0, "none", {})
\* response.ok
Ok(status) == status >= 200 /\ status <= 299

\* The values of the prompt input at a submit event (the input is required).
InputValues == {"haiku", "poem", "0"}

\* The responses of POST /api/generate to { prompt: value }, by the handler
\* above, for every way the upstream call may end.
OfRequest(rq) == HttpResponse(rq.status, "json", rq.json)
ServerResponses(aiHandle, value) ==
    LET rq == GenerateHandler(aiHandle, [prompt |-> Str(value)]) IN
    IF rq.pc = "done" THEN {OfRequest(rq)}
    ELSE {OfRequest(Resume(rq, response)) : response \in Responses}
         \cup {OfRequest(Catch(rq, error)) : error \in Errors}
\* The responses of whatever stands between the page and the server.
IntermediaryResponses ==
    {HttpResponse(502, "unparsable", {}), HttpResponse(404, "json", {}),
     HttpResponse(200, "unparsable", {}), HttpResponse(200, "null", {})}

\* A string as the text of an element: the pieces it is made of.
Text(s) == IF s = "" THEN << >> ELSE <<s>>
\* element.textContent = v: undefined and null empty the element.
TextContent(v) == IF v.t \in {"undefined", "null"} THEN << >> ELSE Text(v.v)

\* Lines 51-72: the page as served.
InitialPage ==
    [pc |-> "idle", prompt |-> "", loadingHidden |-> TRUE, disabled |-> FALSE,
     textContent |-> <<Placeholder>>, red |-> FALSE, italic |-> TRUE,
     settled |-> "none", response |-> NoResponse]

\* Lines 77-94: the listener up to its await of fetch.
SubmitBlock(pg, value) ==
    [pg EXCEPT !.pc = "fetching", !.prompt = value, !.textContent = << >>,
               !.loadingHidden = FALSE, !.disabled = TRUE, !.red = FALSE,
               !.italic = FALSE, !.settled = "none", !.response = NoResponse]

\* Lines 103-107: the catch block, for an error with this message.
CatchBlock(pg, message) ==
    [pg EXCEPT !.textContent = <<ErrorPrefix>> \o message \o <<ErrorSuffix>>,
               !.red = TRUE, !.italic = TRUE]

\* Lines 108-111: the finally block, which ends the listener.
FinallyBlock(pg) ==
    [pg EXCEPT !.pc = "idle", !.loadingHidden = TRUE, !.disabled = FALSE]

\* Lines 96-102: the listener after response.json() has settled.
AfterJson(pg) ==
    LET response == pg.response IN
    IF response.kind = "unparsable" THEN FinallyBlock(CatchBlock(pg, <<SyntaxError>>))
    ELSE IF response.kind = "null" THEN FinallyBlock(CatchBlock(pg, <<NullTypeError>>))
    ELSE IF ~Ok(response.status)
    THEN LET error == Get(response.obj, "error") IN
         FinallyBlock(CatchBlock(pg,
            IF Truthy(error) THEN <<error.v>>
            ELSE <<"HTTP error! Status: ", ToString(response.status)>>))
    ELSE FinallyBlock([pg EXCEPT !.textContent = TextContent(Get(response.obj, "text"))])

\* The form is submitted: the page is loaded from the listening server, and
\* a browser submits no form through a disabled button.
Submit(value) ==
    /\ started
    /\ page.pc = "idle"
    /\ ~page.disabled
    /\ page' = SubmitBlock(page, value)
    /\ UNCHANGED <<GEMINI_API_KEY, started, ai, reqs>>

\* fetch rejects: a network failure.
FetchReject ==
    /\ page.pc = "fetching"
    /\ page' = FinallyBlock(CatchBlock([page EXCEPT !.settled = "rejected"], <<FailedToFetch>>))
    /\ UNCHANGED <<GEMINI_API_KEY, started, ai, reqs>>

\* fetch resolves with a response, and the listener awaits response.json().
FetchResolve(response) ==
    /\ page.pc = "fetching"
    /\ page' = [page EXCEPT !.pc = "parsing", !.settled = "resolved", !.response = response]
    /\ UNCHANGED <<GEMINI_API_KEY, started, ai, reqs>>

\* response.json() settles.
JsonSettle ==
    /\ page.pc = "parsing"
    /\ page' = AfterJson(page)
    /\ UNCHANGED <<GEMINI_API_KEY, started, ai, reqs>>

Init ==
    /\ GEMINI_API_KEY \in ApiKeys
    /\ started = FALSE
    /\ ai = Undefined
    /\ reqs = [r \in Requests |-> NoRequest]
    /\ page = InitialPage

Next ==
    \/ Startup
    \/ \E r \in Requests : GetRoot(r)
    \/ \E r \in Requests, reqBody \in Bodies : Generate(r, reqBody)
    \/ \E r \in Requests, response \in Responses : UpstreamResolve(r, response)
    \/ \E r \in Requests, error \in Errors : UpstreamReject(r, error)

Spec == Init /\ [][Next]_vars

\* The page against the server it was loaded from.
PageNext ==
    \/ Startup
    \/ \E value \in InputValues : Submit(value)
    \/ FetchReject
    \/ \E response \in ServerResponses(ai, page.prompt) \cup IntermediaryResponses :
            FetchResolve(response)
    \/ JsonSettle

PageSpec == Init /\ [][PageNext]_vars

\* ---------------------------------------------------------------- claims

Post(r) == reqs[r].method = "POST"
Done(r) == reqs[r].pc = "done"
Configured == GEMINI_API_KEY.t = "string" /\ GEMINI_API_KEY.v # ""
GenericBody == {<<"error", Str(GenericError)>>}

\* The response has a first candidate whose first content part has a text.
HasFirstText(response) ==
    /\ response.hasCandidates
    /\ Len(response.candidates) >= 1
    /\ response.candidates[1].hasContent
    /\ response.candidates[1].hasParts
    /\ Len(response.candidates[1].parts) >= 1
    /\ response.candidates[1].parts[1].text.t = "string"

\* C1: a POST /api/generate with a non-empty string prompt, on a server whose
\* client was initialized, whose upstream call resolved with a response that
\* has a first candidate with a first part with a text, is answered 200 with
\* the body { text: that text }.
C1_SuccessReturnsFirstText ==
    \A r \in Requests :
        ( /\ Post(r) /\ Done(r)
          /\ reqs[r].prompt.t = "string" /\ reqs[r].prompt.v # ""
          /\ Configured
          /\ reqs[r].upstream.kind = "resolve"
          /\ HasFirstText(reqs[r].upstream.response) )
        => /\ reqs[r].status = 200
           /\ reqs[r].type = "application/json"
           /\ reqs[r].json = {<<"text", reqs[r].upstream.response.candidates[1].parts[1].text>>}

C1_Witness ==
    \E r \in Requests :
        /\ Done(r) /\ reqs[r].prompt = Str("haiku")
        /\ reqs[r].upstream = Resolved(ManyTexts)
        /\ reqs[r].json = {<<"text", Str("first")>>}

\* C2: without a credential at startup every POST /api/generate is answered
\* 503 at once, whatever its prompt (also a missing one, which gets no 400),
\* and makes no upstream call.
C2_NoCredentialAlways503 ==
    ~Configured =>
        \A r \in Requests :
            (Post(r) /\ reqs[r].pc # "idle")
            => /\ Done(r)
               /\ reqs[r].status = 503
               /\ reqs[r].calls = 0
               /\ reqs[r].upstream = Pending

C2_Witness ==
    /\ GEMINI_API_KEY = Str("")
    /\ \E r, q \in Requests :
        /\ Post(r) /\ reqs[r].prompt = Undefined /\ reqs[r].status = 503
        /\ Post(q) /\ reqs[q].prompt = Str("haiku") /\ reqs[q].status = 503

\* C3: with the client configured, a POST /api/generate whose prompt is
\* missing, null, the empty string or 0 is answered 400 with the
\* prompt-required error, and makes no upstream call.
C3_FalsyPromptGets400 ==
    Configured =>
        \A r \in Requests :
            ( /\ Post(r) /\ reqs[r].pc # "idle"
              /\ reqs[r].prompt \in {Undefined, Null, Str(""), Num("0")} )
            => /\ Done(r)
               /\ reqs[r].status = 400
               /\ reqs[r].json = {<<"error", Str("Prompt is required in the request body.")>>}
               /\ reqs[r].calls = 0
               /\ reqs[r].upstream = Pending

C3_Witness ==
    /\ Configured
    /\ \E r, q \in Requests :
        /\ Post(r) /\ reqs[r].prompt = Undefined /\ reqs[r].status = 400
        /\ Post(q) /\ reqs[q].prompt = Str("") /\ reqs[q].status = 400

\* C4: a request whose upstream call rejected is answered 500 with the generic
\* error; the body holds nothing of the error, and any two such requests have
\* the same body.
C4_RejectionGetsGeneric500 ==
    /\ \A r \in Requests :
        reqs[r].upstream.kind = "reject"
        => /\ Done(r)
           /\ reqs[r].status = 500
           /\ reqs[r].json = GenericBody
           /\ \A kv \in reqs[r].json : kv[2].v # reqs[r].upstream.error
    /\ \A r, q \in Requests :
        (reqs[r].upstream.kind = "reject" /\ reqs[q].upstream.kind = "reject")
        => reqs[r].json = reqs[q].json /\ reqs[r].status = reqs[q].status

C4_Witness ==
    \E r, q \in Requests :
        /\ reqs[r].upstream = Rejected("fetch failed")
        /\ reqs[q].upstream = Rejected("API key not valid: key-123")
        /\ reqs[r].status = 500 /\ reqs[q].status = 500

\* C5: a request whose upstream call resolved with a malformed response (no
\* candidates, a first candidate without content or parts, a first part without
\* text) is answered 500 with the generic error, never 200.
C5_MalformedGets500 ==
    \A r \in Requests :
        ( /\ Done(r)
          /\ reqs[r].upstream.kind = "resolve"
          /\ ~HasFirstText(reqs[r].upstream.response) )
        => reqs[r].status = 500 /\ reqs[r].json = GenericBody

\* C6: the client handle is undefined until startup, is set at startup to a
\* client iff the credential is a non-empty string, and never changes after;
\* so a server started without a credential answers every generation request
\* 503 and every GET / 200.
C6_ClientSetOnceAtStartup ==
    /\ [](~started => ai = Undefined)
    /\ [](started => (Truthy(ai) <=> Configured))
    /\ [][started => ai' = ai]_vars
    /\ []((started /\ ~Configured) =>
            \A r \in Requests :
                /\ (Post(r) /\ reqs[r].pc # "idle") => reqs[r].status = 503
                /\ reqs[r].method = "GET" => reqs[r].status = 200)

C6_Witness ==
    /\ started /\ GEMINI_API_KEY = Undefined /\ ai = Undefined
    /\ \E r, q \in Requests :
        /\ r < q
        /\ Post(r) /\ reqs[r].status = 503
        /\ reqs[q].method = "GET" /\ reqs[q].status = 200 /\ reqs[q].html = PageTitle

\* C7: with an upstream that ends the same way for the same prompt, two
\* generation requests with the same prompt get the same status and body,
\* whatever was handled before or between them.
C7_SamePromptSameResponse ==
    \A r, q \in Requests :
        ( /\ Post(r) /\ Post(q) /\ Done(r) /\ Done(q)
          /\ reqs[r].prompt = reqs[q].prompt
          /\ (reqs[r].calls > 0 /\ reqs[q].calls > 0) => reqs[r].upstream = reqs[q].upstream )
        => /\ reqs[r].status = reqs[q].status
           /\ reqs[r].type = reqs[q].type
           /\ reqs[r].json = reqs[q].json

C7_Witness ==
    /\ MaxRequests >= 3
    /\ Post(1) /\ Post(2) /\ Post(3) /\ Done(1) /\ Done(2) /\ Done(3)
    /\ reqs[1].prompt = Str("haiku") /\ reqs[3].prompt = Str("haiku")
    /\ reqs[2].prompt = Num("7")
    /\ reqs[1].upstream = Resolved(OneText) /\ reqs[3].upstream = Resolved(OneText)
    /\ reqs[2].upstream = Rejected("fetch failed")
    /\ reqs[1].json = reqs[3].json

\* C8: while a generation request awaits the upstream API, the server can take
\* and answer the next request (GET / or POST /api/generate, with any body),
\* and any other awaiting request can be resumed with any outcome.
C8_PendingBlocksOnlyItself ==
    \A r \in Requests :
        reqs[r].pc = "awaiting" =>
            \A q \in Requests \ {r} :
                /\ (reqs[q].pc = "idle" /\ \A p \in Requests : p < q => reqs[p].pc # "idle")
                   => /\ ENABLED GetRoot(q)
                      /\ \A reqBody \in Bodies : ENABLED Generate(q, reqBody)
                /\ reqs[q].pc = "awaiting"
                   => /\ \A response \in Responses : ENABLED UpstreamResolve(q, response)
                      /\ \A error \in Errors : ENABLED UpstreamReject(q, error)

C8_Witness ==
    \E r, q, p \in Requests :
        /\ r < q /\ r < p
        /\ reqs[r].pc = "awaiting"
        /\ reqs[q].method = "GET" /\ reqs[q].status = 200
        /\ Post(p) /\ reqs[p].status = 200 /\ reqs[p].upstream.kind = "resolve"

\* C9: a generation request calls the upstream API at most once; one whose
\* call rejected is answered 500 having made that one call.
C9_AtMostOneUpstreamCall ==
    \A r \in Requests :
        /\ reqs[r].calls <= 1
        /\ reqs[r].pc = "awaiting" => reqs[r].calls = 1
        /\ reqs[r].upstream.kind = "reject"
           => Done(r) /\ reqs[r].status = 500 /\ reqs[r].calls = 1

C9_Witness ==
    \E r \in Requests :
        /\ reqs[r].upstream.kind = "reject"
        /\ Done(r) /\ reqs[r].status = 500 /\ reqs[r].calls = 1
        /\ reqs[r].call = Call(Num("7"))

ShowsReturnedText ==
    /\ page.settled = "resolved"
    /\ page.response.kind = "json"
    /\ \E kv \in page.response.obj :
        kv[1] = "text" /\ kv[2].t = "string" /\ page.textContent = Text(kv[2].v)
ShowsError == Len(page.textContent) >= 1 /\ page.textContent[1] = "Error: "
\* C10: while the page's call is in flight the loading indicator is shown and
\* the button disabled; once the listener has ended, after any outcome of the
\* call, the indicator is hidden, the button enabled, and the output is the
\* text the response returned or a message starting with "Error: ".
C10_SubmitSettles ==
    /\ page.pc \in {"fetching", "parsing"} => ~page.loadingHidden /\ page.disabled
    /\ (page.pc = "idle" /\ page.settled # "none")
       => /\ page.loadingHidden
          /\ ~page.disabled
          /\ ShowsReturnedText \/ ShowsError

====
